---- MODULE Spec2Model ----
(***************************************************************************)
(* A model of simple_file_tagging (src/file_tags/tags.py, util.py).        *)
(*                                                                         *)
(* Text is modelled as a sequence of one-character strings, so that the    *)
(* string functions of the program (lower, strip, the tag regular          *)
(* expression, splitext, trim_repeating_whitespace, sorted) are computed   *)
(* character by character, as the code computes them.                      *)
(***************************************************************************)
EXTENDS Integers, Sequences, FiniteSets, TLC

(***************************************************************************)
(* Bounds of the model.                                                    *)
(***************************************************************************)
\* Longest file name enumerated for a single TaggedFile (SpecFile).
MaxLen == 3
\* Largest number of files in a batch (Spec).
MaxFiles == 3
\* Largest number of user-supplied tags in one invocation (Spec).
MaxTags == 2
\* Largest number of tags a single TaggedFile holds in SpecFile.
MaxFileTags == 3
\* Largest number of invocations in a row (a run and its re-runs).
MaxRuns == 2

(***************************************************************************)
(* Characters.                                                             *)
(***************************************************************************)
TAG_START_CHAR == "#"
TAG_WORD_SEP == "-"

\* The characters file names are drawn from: a lowercase letter, a digit, an
\* uppercase letter, two kinds of whitespace, the tag marker, the canonical
\* separator and the extension separator.
Alphabet == {"a", "1", "A", " ", "\t", "#", "-", "."}

\* Unicode code points (Python's ord) of the characters used.
Ord(c) ==
    CASE c = "\t" -> 9
      [] c = " " -> 32
      [] c = "#" -> 35
      [] c = "+" -> 43
      [] c = "-" -> 45
      [] c = "." -> 46
      [] c = "1" -> 49
      [] c = "A" -> 65
      [] c = "B" -> 66
      [] c = "D" -> 68
      [] c = "M" -> 77
      [] c = "R" -> 82
      [] c = "Y" -> 89
      [] c = "_" -> 95
      [] c = "a" -> 97
      [] c = "b" -> 98
      [] c = "d" -> 100
      [] c = "e" -> 101
      [] c = "l" -> 108
      [] c = "m" -> 109
      [] c = "n" -> 110
      [] c = "o" -> 111
      [] c = "r" -> 114
      [] c = "s" -> 115
      [] c = "t" -> 116
      [] c = "v" -> 118
      [] c = "y" -> 121

\* str.isspace, str.isalnum, str.lower on one character.
IsSpace(c) == c \in {" ", "\t"}

IsUpper(c) == Ord(c) >= 65 /\ Ord(c) <= 90

IsLowerOrDigit(c) ==
    \/ (Ord(c) >= 97 /\ Ord(c) <= 122)
    \/ (Ord(c) >= 48 /\ Ord(c) <= 57)

IsAlnum(c) == IsUpper(c) \/ IsLowerOrDigit(c)

LowerChar(c) ==
    CASE c = "A" -> "a"
      [] c = "B" -> "b"
      [] c = "D" -> "d"
      [] c = "M" -> "m"
      [] c = "R" -> "r"
      [] c = "Y" -> "y"
      [] OTHER -> c

(***************************************************************************)
(* Strings.                                                                *)
(***************************************************************************)
\* str.lower
Lower(s) == [i \in 1..Len(s) |-> LowerChar(s[i])]

\* str.lstrip, str.rstrip, str.strip (whitespace)
RECURSIVE LStrip(_)
LStrip(s) ==
    IF s # <<>> /\ IsSpace(Head(s)) THEN LStrip(Tail(s)) ELSE s

RECURSIVE RStrip(_)
RStrip(s) ==
    IF s # <<>> /\ IsSpace(s[Len(s)])
    THEN RStrip(SubSeq(s, 1, Len(s) - 1))
    ELSE s

Strip(s) == RStrip(LStrip(s))

\* s[1:]
Slice1(s) == IF s = <<>> THEN <<>> ELSE Tail(s)

\* sep.join(parts)
RECURSIVE Join(_, _)
Join(sep, parts) ==
    IF parts = <<>> THEN <<>>
    ELSE IF Len(parts) = 1 THEN parts[1]
    ELSE parts[1] \o sep \o Join(sep, Tail(parts))

\* The elements of a sequence.
Range(s) == {s[i] : i \in 1..Len(s)}

\* All strings over chars of length at most n.
RECURSIVE StringsUpTo(_, _)
StringsUpTo(chars, n) ==
    IF n = 0 THEN {<<>>}
    ELSE LET shorter == StringsUpTo(chars, n - 1)
         IN shorter \cup {Append(s, c) : s \in shorter, c \in chars}

\* All orderings of a finite set, as sequences without repetition.
RECURSIVE Orderings(_)
Orderings(S) ==
    IF S = {} THEN {<<>>}
    ELSE UNION {{<<x>> \o rest : rest \in Orderings(S \ {x})} : x \in S}

(***************************************************************************)
(* util.py                                                                 *)
(***************************************************************************)
\* util.trim_repeating_whitespace: a whitespace character equal to the
\* character before it is dropped.
RECURSIVE TrimFrom(_, _)
TrimFrom(text, previous_text_char) ==
    IF text = <<>> THEN <<>>
    ELSE IF IsSpace(Head(text)) /\ Head(text) = previous_text_char
    THEN TrimFrom(Tail(text), previous_text_char)
    ELSE <<Head(text)>> \o TrimFrom(Tail(text), Head(text))

trim_repeating_whitespace(text) == TrimFrom(text, "")

\* str.rfind(".") on a string, 1-based, 0 when there is none.
RECURSIVE RFindDot(_, _)
RFindDot(p, i) ==
    IF i = 0 THEN 0
    ELSE IF p[i] = "." THEN i
    ELSE RFindDot(p, i - 1)

\* os.path.splitext of a name that holds no directory separator: the
\* extension starts at the last dot, unless only dots come before it.
splitext(p) ==
    LET dotIndex == RFindDot(p, Len(p))
    IN IF dotIndex > 0 /\ \E j \in 1..(dotIndex - 1) : p[j] # "."
       THEN <<SubSeq(p, 1, dotIndex - 1), SubSeq(p, dotIndex, Len(p))>>
       ELSE <<p, <<>>>>

\* util.get_file_extension
get_file_extension(file_path) ==
    Strip(Slice1(Lower(splitext(file_path)[2])))

\* util.get_file_name_no_extension
get_file_name_no_extension(file_path) == splitext(file_path)[1]

(***************************************************************************)
(* Tag                                                                     *)
(***************************************************************************)
\* The separators Tag.normalize_name replaces by TAG_WORD_SEP.
common_separators == {"-", "_", ".", " "}

ReplaceSeparators(s) ==
    [i \in 1..Len(s) |-> IF s[i] \in common_separators THEN TAG_WORD_SEP ELSE s[i]]

\* "".join(char for char in s if char.isalnum() or char == TAG_WORD_SEP)
RECURSIVE KeepTagChars(_)
KeepTagChars(s) ==
    IF s = <<>> THEN <<>>
    ELSE IF IsAlnum(Head(s)) \/ Head(s) = TAG_WORD_SEP
    THEN <<Head(s)>> \o KeepTagChars(Tail(s))
    ELSE KeepTagChars(Tail(s))

\* Tag.normalize_name up to its emptiness test.
NormalizedTagChars(name) == KeepTagChars(ReplaceSeparators(Strip(Lower(name))))

\* Tag(name) raises exception.Error.
TagRaises(name) == NormalizedTagChars(name) = <<>>

\* Tag(name).name, when Tag(name) does not raise.
normalize_name(name) == Strip(NormalizedTagChars(name))

\* Tag.value
TagValue(name) == <<TAG_START_CHAR>> \o name

\* Tag.__eq__
TagEq(a, b) == a = b

\* Tag.__gt__: the first characters' code points are compared.
TagGt(a, b) == Ord(a[1]) > Ord(b[1])

\* Tag.__lt__ as functools.total_ordering derives it from __gt__ and __eq__:
\* not (a > b) and a != b.
TagLt(a, b) == ~TagGt(a, b) /\ ~TagEq(a, b)

(***************************************************************************)
(* sorted(): CPython's list.sort on fewer than 64 elements is one run      *)
(* found by count_run (reversed when descending) extended by binary        *)
(* insertion; only "<" is ever asked.                                      *)
(***************************************************************************)
Reverse(s) == [i \in 1..Len(s) |-> s[Len(s) + 1 - i]]

\* Length of the run that starts the list, given that it is descending or not.
RECURSIVE RunLength(_, _, _)
RunLength(s, n, descending) ==
    IF n = Len(s) THEN n
    ELSE IF TagLt(s[n + 1], s[n]) = descending THEN RunLength(s, n + 1, descending)
    ELSE n

\* The place binarysort finds for pivot in the sorted prefix s[1..k]: the
\* number of elements that stay before it.
RECURSIVE BinarySearch(_, _, _, _)
BinarySearch(s, pivot, l, r) ==
    IF l >= r THEN l
    ELSE LET p == l + ((r - l) \div 2)
         IN IF TagLt(pivot, s[p + 1])
            THEN BinarySearch(s, pivot, l, p)
            ELSE BinarySearch(s, pivot, p + 1, r)

RECURSIVE BinarySort(_, _)
BinarySort(s, start) ==
    IF start > Len(s) THEN s
    ELSE LET pivot == s[start]
             l == BinarySearch(s, pivot, 0, start - 1)
         IN BinarySort(
                SubSeq(s, 1, l) \o <<pivot>> \o SubSeq(s, l + 1, start - 1)
                    \o SubSeq(s, start + 1, Len(s)),
                start + 1)

Sorted(s) ==
    IF Len(s) < 2 THEN s
    ELSE LET descending == TagLt(s[2], s[1])
             n == RunLength(s, 2, descending)
             run == IF descending
                    THEN Reverse(SubSeq(s, 1, n)) \o SubSeq(s, n + 1, Len(s))
                    ELSE s
         IN BinarySort(run, n + 1)

(***************************************************************************)
(* TaggedFile                                                              *)
(***************************************************************************)
\* [a-z0-9-], the characters of TAG_REGEX after the marker.
InTagClass(c) == IsLowerOrDigit(c) \/ c = "-"

\* The end of the longest run of tag characters that starts at i.
RECURSIVE TokenEnd(_, _)
TokenEnd(s, i) ==
    IF i <= Len(s) /\ InTagClass(s[i]) THEN TokenEnd(s, i + 1) ELSE i - 1

\* A match of TAG_REGEX starts at i.
MatchAt(s, i) ==
    /\ s[i] = TAG_START_CHAR
    /\ i + 1 <= Len(s)
    /\ InTagClass(s[i + 1])

\* re.findall(TAG_REGEX, file_name): the non-overlapping matches, left to right.
RECURSIVE FindAll(_, _)
FindAll(s, i) ==
    IF i > Len(s) THEN <<>>
    ELSE IF MatchAt(s, i)
    THEN <<SubSeq(s, i, TokenEnd(s, i + 1))>> \o FindAll(s, TokenEnd(s, i + 1) + 1)
    ELSE FindAll(s, i + 1)

\* re.sub(TAG_REGEX, "", file_name)
RECURSIVE SubAll(_, _)
SubAll(s, i) ==
    IF i > Len(s) THEN <<>>
    ELSE IF MatchAt(s, i) THEN SubAll(s, TokenEnd(s, i + 1) + 1)
    ELSE <<s[i]>> \o SubAll(s, i + 1)

\* TaggedFile.parsed_tagless_name
parsed_tagless_name(file_name) ==
    Strip(trim_repeating_whitespace(SubAll(file_name, 1)))

\* TaggedFile.parsed_tags: the set of the Tags of the matches; a match whose
\* Tag raises is skipped.
parsed_tags(file_name) ==
    LET tag_names == FindAll(file_name, 1)
    IN {normalize_name(tag_names[i]) :
            i \in {j \in 1..Len(tag_names) : ~TagRaises(tag_names[j])}}

\* TaggedFile.new_name. tags is the tag set in its iteration order.
new_name(tagless_name, tags) ==
    LET shown == [i \in 1..Len(tags) |-> TagValue(Sorted(tags)[i])]
        name == Strip(trim_repeating_whitespace(
                    get_file_name_no_extension(tagless_name)
                    \o (IF tags # <<>> THEN <<" ">> \o Join(<<" ">>, shown) ELSE <<>>)))
        extension == get_file_extension(tagless_name)
    IN Strip(name \o (IF extension # <<>> THEN <<".">> \o extension ELSE <<>>))

\* os.path.basename, os.path.dirname and os.path.join on a path kept as its
\* directory and its last segment.
basename(path) == path.name

dirname(path) == path.dir

join(dir, name) == [dir |-> dir, name |-> name]

\* TaggedFile.__init__; order is the iteration order of the parsed tag set.
TaggedFile(path, order) ==
    [path |-> path,
     name |-> basename(path),
     tags |-> order,
     tagless_name |-> parsed_tagless_name(basename(path))]

\* The TaggedFile objects that TaggedFile(path) can be: one for each
\* iteration order of the set of parsed tags.
TaggedFiles(path) ==
    {TaggedFile(path, order) : order \in Orderings(parsed_tags(basename(path)))}

\* TaggedFile.new_name and TaggedFile.new_path of an object.
NewName(file) == new_name(file.tagless_name, file.tags)

new_path(file) == join(dirname(file.path), NewName(file))

\* A set that takes a tag it already holds once more.
add_tag_again(tags, tag) ==
    {SubSeq(tags, 1, k) \o <<tag>> \o SubSeq(tags, k + 1, Len(tags)) :
        k \in 0..Len(tags)}

\* set.add: nothing when the tag is in the set; otherwise the tag takes a free
\* slot of the hash table, anywhere in the iteration order, and the other
\* tags keep their places.
add_tag(tags, tag) ==
    IF tag \in Range(tags) THEN {tags}
    ELSE {SubSeq(tags, 1, k) \o <<tag>> \o SubSeq(tags, k + 1, Len(tags)) :
            k \in 0..Len(tags)}

\* set.discard
remove_tag(tags, tag) ==
    LET Keep(t) == t # tag
    IN SelectSeq(tags, Keep)

(***************************************************************************)
(* TagAction                                                               *)
(***************************************************************************)
ADD == <<"a", "d", "d">>
REMOVE == <<"r", "e", "m", "o", "v", "e">>
RM == <<"r", "m">>
DELETE == <<"d", "e", "l", "e", "t", "e">>
DEL == <<"d", "e", "l">>

\* TagAction.normalize_value; "raise" stands for raising exception.Error.
normalize_value(value) ==
    LET normalized_value == Strip(Lower(value))
    IN IF normalized_value = ADD THEN "add"
       ELSE IF normalized_value \in {REMOVE, RM, DELETE, DEL} THEN "remove"
       ELSE "raise"

(***************************************************************************)
(* The file system: one directory, a file name mapped to the file it       *)
(* names.                                                                  *)
(***************************************************************************)
\* The outcomes of os.rename(src, dst) for two names of the directory: the
\* call can always fail (permission denied, ...); it can succeed when src
\* exists, dst names no directory and, on Windows, dst does not exist. On
\* POSIX a file at dst is replaced.
os_rename(disk, os, src, dst) ==
    LET moved == [n \in (DOMAIN disk \ {src}) \cup {dst} |->
                    IF n = dst THEN disk[src] ELSE disk[n]]
        possible ==
            /\ src \in DOMAIN disk
            /\ dst \notin {<<>>, <<".">>, <<".", ".">>}
            /\ (dst \in DOMAIN disk => os = "posix")
    IN {[ok |-> FALSE, disk |-> disk]}
       \cup (IF possible THEN {[ok |-> TRUE, disk |-> moved]} ELSE {})

\* A write() that also returns quietly when the file is already at new_path.
write_skips_renamed(file, disk, os) ==
    IF new_path(file) = file.path \/ NewName(file) \in DOMAIN disk
    THEN {[result |-> "noop", disk |-> disk]}
    ELSE {[result |-> IF o.ok THEN "renamed" ELSE "error", disk |-> o.disk] :
            o \in os_rename(disk, os, file.path.name, NewName(file))}

\* TaggedFile.write: nothing when new_path equals path, otherwise one
\* os.rename, whose OSError becomes exception.Error.
write(file, disk, os) ==
    IF new_path(file) = file.path
    THEN {[result |-> "noop", disk |-> disk]}
    ELSE {[result |-> IF o.ok THEN "renamed" ELSE "error", disk |-> o.disk] :
            o \in os_rename(disk, os, file.path.name, NewName(file))}

(***************************************************************************)
(* Inputs.                                                                 *)
(***************************************************************************)
\* The directory the files are in, as an absolute path and as the empty
\* dirname of a relative path.
Dirs == {"/d", ""}

\* util.normalize_path of a path of the working directory /d.
normalize_path(path) == [dir |-> "/d", name |-> path.name]

\* The file names of length 1..MaxLen; "." and ".." name no file.
Names == StringsUpTo(Alphabet, MaxLen) \ {<<>>, <<".">>, <<".", ".">>}

\* The file names batches are made of: untagged, tagged in canonical form,
\* tagged with the tag first, and with an extension that holds the marker.
BatchNames ==
    {<<"a">>,
     <<"a", " ", "#", "a">>,
     <<"#", "a", " ", "a">>,
     <<"a", ".", "#", "A">>}

\* Raw tag texts: two whose canonical names (a, a1) share their first
\* character, one of them in need of normalizing, and one whose normalization
\* is empty.
RawTags == {<<"a">>, <<" ", "A", "1">>, <<" ">>}

\* Raw action keywords: one of argparse's choices, one that only TagAction
\* takes, and one that neither takes.
RawActions == {ADD, <<" ", "D", "e", "l">>, <<"m", "v">>}

\* argparse's choices for the action.
ActionChoices == {ADD, REMOVE, RM}

\* What the user may type at the confirmation prompt.
RawAnswers == {<<"Y">>, <<"y", "e", "s", " ">>, <<"n">>, <<>>}

\* The sets of 1..n elements of S.
SubsetsUpTo(S, n) == {T \in SUBSET S : T # {} /\ Cardinality(T) <= n}

\* The sequences that take their i-th element from sets[i].
RECURSIVE Choices(_)
Choices(sets) ==
    IF sets = <<>> THEN {<<>>}
    ELSE {<<x>> \o rest : x \in Head(sets), rest \in Choices(Tail(sets))}

\* Some enumeration of a finite set.
RECURSIVE Enumerate(_)
Enumerate(S) ==
    IF S = {} THEN <<>>
    ELSE LET x == CHOOSE y \in S : TRUE IN <<x>> \o Enumerate(S \ {x})

(***************************************************************************)
(* State.                                                                  *)
(***************************************************************************)
VARIABLES
    os_name,              \* os.name: "posix" or "nt"
    disk,                 \* the directory: file name -> file
    disk0,                \* history: the directory when the invocation started
    entry,                \* how the program is entered: "run", "main" or "api"
    argv,                 \* the raw inputs of the invocation
    config,               \* the Config, once constructed
    tagged_files,         \* the TaggedFile objects, by object number
    pc,                   \* where the invocation is
    changed_tagged_files, \* main's set of files to rename (object numbers)
    renamed_files,        \* rename_files' set of renamed files
    attempted,            \* the objects write() was called on by rename_files
    renames,              \* history: the renames the invocation performed
    previous,             \* history: the names the invocation before gave
    exit_code,            \* the exit status, -1 while there is none
    answer,               \* main's answer, empty before the prompt
    report,               \* the numbers in rename_files' error message
    run_no,               \* the number of the invocation
    prev_write,           \* api: outcome of the write() before the last one
    last_write,           \* api: outcome of the last write() call
    tag_name,             \* tag: the raw text given to Tag(...)
    new_tag               \* tag: what Tag(...) gave

vars ==
    <<os_name, disk, disk0, entry, argv, config, tagged_files, pc,
      changed_tagged_files, renamed_files, attempted, renames, previous,
      exit_code, answer, report, run_no, prev_write, last_write,
      tag_name, new_tag>>

tag_vars == <<tag_name, new_tag>>

NoTag == [state |-> "none", name |-> <<>>]

NoConfig == [action |-> "none", in_interactive_mode |-> FALSE,
             no_action |-> FALSE, tags |-> {}]

NoReport == [position |-> 0, total |-> 0]

Files == DOMAIN tagged_files

Init ==
    /\ os_name \in {"posix", "nt"}
    /\ entry \in {"run", "main"}
    /\ \E paths \in SubsetsUpTo(BatchNames, MaxFiles),
          action \in RawActions,
          tags \in SubsetsUpTo(RawTags, MaxTags),
          no_action \in BOOLEAN,
          interactive \in BOOLEAN :
            /\ argv = [action |-> action, tags |-> tags, paths |-> paths,
                       no_action |-> no_action, interactive |-> interactive]
            \* On the command line a path may name no file; main's caller
            \* passes files that exist.
            /\ \E missing \in SUBSET paths :
                  /\ entry = "main" => missing = {}
                  /\ disk = [n \in paths \ missing |-> n]
    /\ disk0 = disk
    /\ config = NoConfig
    /\ tagged_files = <<>>
    /\ pc = "start"
    /\ changed_tagged_files = {}
    /\ renamed_files = {}
    /\ attempted = {}
    /\ renames = <<>>
    /\ previous = {}
    /\ exit_code = -1
    /\ answer = <<>>
    /\ report = NoReport
    /\ run_no = 1
    /\ prev_write = "none"
    /\ last_write = "none"
    /\ tag_name = <<>>
    /\ new_tag = NoTag

(***************************************************************************)
(* run() and Config.from_command_line_args                                 *)
(***************************************************************************)
\* parser.parse_args: argparse ends the process with status 2 when the action
\* is not one of its choices.
ParseArgs ==
    /\ pc = "start"
    /\ entry = "run"
    /\ \/ /\ argv.action \notin ActionChoices
          /\ exit_code' = 2
          /\ pc' = "exited"
       \/ /\ argv.action \in ActionChoices
          /\ pc' = "parsed"
          /\ UNCHANGED exit_code
    /\ UNCHANGED <<os_name, previous, disk0, disk, entry, argv, config, tagged_files,
                   changed_tagged_files, renamed_files, attempted, renames,
                   answer, report, run_no, prev_write, last_write>>
    /\ UNCHANGED tag_vars

\* A run() whose last handler ends the process with status 0.
RunExitCode_swallows(exception) ==
    IF exception = "KeyboardInterrupt" THEN 130 ELSE 0

\* The exit status run() maps an exception of main or from_command_line_args
\* to: 130 for KeyboardInterrupt, 1 for exception.Error and for any other
\* Exception.
RunExitCode(exception) ==
    IF exception = "KeyboardInterrupt" THEN 130 ELSE 1

\* file_paths = util.validated_paths(parsed.file_paths): util has no
\* attribute of that name (it defines validate_paths), so the call raises
\* AttributeError, which is no exception.Error and reaches run()'s
\* "except Exception". The tags are never split, no Config is made and main
\* is not called.
ValidatePaths ==
    /\ pc = "parsed"
    /\ exit_code' = RunExitCode("AttributeError")
    /\ pc' = "exited"
    /\ UNCHANGED <<os_name, previous, disk0, disk, entry, argv, config, tagged_files,
                   changed_tagged_files, renamed_files, attempted, renames,
                   answer, report, run_no, prev_write, last_write>>
    /\ UNCHANGED tag_vars

(***************************************************************************)
(* main(config), entered with a Config the caller constructs               *)
(***************************************************************************)
\* The caller's TagAction(...), Tag(...) and TaggedFile(...) calls and
\* Config.__init__. A constructor that raises leaves the caller with
\* exception.Error before main is entered.
Construct ==
    /\ pc = "start"
    /\ entry = "main"
    /\ \/ /\ \/ normalize_value(argv.action) = "raise"
             \/ \E t \in argv.tags : TagRaises(t)
          /\ pc' = "raised"
          /\ UNCHANGED <<config, tagged_files>>
       \/ /\ normalize_value(argv.action) # "raise"
          /\ \A t \in argv.tags : ~TagRaises(t)
          /\ config' = [action |-> normalize_value(argv.action),
                        in_interactive_mode |-> argv.interactive,
                        no_action |-> argv.no_action,
                        tags |-> {normalize_name(t) : t \in argv.tags}]
          /\ LET paths == Enumerate(argv.paths)
             IN tagged_files' \in Choices(
                    [i \in 1..Len(paths) |->
                        TaggedFiles([dir |-> "/d", name |-> paths[i]])])
          /\ pc' = "main"
    /\ UNCHANGED <<os_name, previous, disk0, disk, entry, argv, changed_tagged_files,
                   renamed_files, attempted, renames, exit_code, answer,
                   report, run_no, prev_write, last_write>>
    /\ UNCHANGED tag_vars

\* The tag sets (in iteration order) one file can have after main's inner
\* loop over config.tags.
RECURSIVE ApplyTags(_, _, _)
ApplyTags(tags, action, config_tags) ==
    IF config_tags = {} THEN {tags}
    ELSE LET tag == CHOOSE t \in config_tags : TRUE
             after == IF action = "add" THEN add_tag(tags, tag)
                      ELSE IF action = "remove" THEN {remove_tag(tags, tag)}
                      ELSE {tags}
         IN UNION {ApplyTags(a, action, config_tags \ {tag}) : a \in after}

\* main, lines 314-319: every tag is added to, or removed from, every file.
Apply ==
    /\ pc = "main"
    /\ tagged_files' \in Choices(
            [i \in Files |->
                {[tagged_files[i] EXCEPT !.tags = tags] :
                    tags \in ApplyTags(tagged_files[i].tags, config.action,
                                       config.tags)}])
    /\ pc' = "select"
    /\ UNCHANGED <<os_name, previous, disk0, disk, entry, argv, config, changed_tagged_files,
                   renamed_files, attempted, renames, exit_code, answer,
                   report, run_no, prev_write, last_write>>
    /\ UNCHANGED tag_vars

\* A changed set of the files whose tag set differs from the parsed one.
Changed_by_tags(files) ==
    {i \in DOMAIN files : Range(files[i].tags) # parsed_tags(files[i].name)}

\* main, lines 321-323: the files whose name differs from their new_name.
Changed(files) == {i \in DOMAIN files : files[i].name # NewName(files[i])}

\* main, lines 321-328.
SelectChanged ==
    /\ pc = "select"
    /\ changed_tagged_files' = Changed(tagged_files)
    /\ \/ /\ Changed(tagged_files) = {}
          /\ exit_code' = 0
          /\ pc' = "exited"
       \/ /\ Changed(tagged_files) # {}
          /\ pc' = "no_action"
          /\ UNCHANGED exit_code
    /\ UNCHANGED <<os_name, previous, disk0, disk, entry, argv, config, tagged_files,
                   renamed_files, attempted, renames, answer, report, run_no,
                   prev_write, last_write>>
    /\ UNCHANGED tag_vars

\* main, lines 330-332.
CheckNoAction ==
    /\ pc = "no_action"
    /\ \/ /\ config.no_action
          /\ exit_code' = 0
          /\ pc' = "exited"
       \/ /\ ~config.no_action
          /\ pc' = "confirm"
          /\ UNCHANGED exit_code
    /\ UNCHANGED <<os_name, previous, disk0, disk, entry, argv, config, tagged_files,
                   changed_tagged_files, renamed_files, attempted, renames,
                   answer, report, run_no, prev_write, last_write>>
    /\ UNCHANGED tag_vars

\* The answers main takes for a yes.
Yes == {<<"y">>, <<"y", "e", "s">>}

\* A prompt that goes ahead on anything but a typed no.
Confirmed_unless_no(given) == given \notin {<<"n">>, <<"n", "o">>}

\* main, line 336: the answer lets the renaming go ahead.
Confirmed(given) == given \in Yes

\* main, lines 334-340. The user may also interrupt the prompt, which leaves
\* main with KeyboardInterrupt.
Confirm ==
    /\ pc = "confirm"
    /\ \/ /\ ~config.in_interactive_mode
          /\ pc' = "rename"
          /\ UNCHANGED <<answer, exit_code>>
       \/ /\ config.in_interactive_mode
          /\ \E typed \in RawAnswers :
                /\ answer' = Lower(Strip(typed))
                /\ IF Confirmed(Lower(Strip(typed)))
                   THEN pc' = "rename" /\ UNCHANGED exit_code
                   ELSE pc' = "exited" /\ exit_code' = 130
       \/ /\ config.in_interactive_mode
          /\ pc' = "raised"
          /\ UNCHANGED <<answer, exit_code>>
    /\ UNCHANGED <<os_name, previous, disk0, disk, entry, argv, config, tagged_files,
                   changed_tagged_files, renamed_files, attempted, renames,
                   report, run_no, prev_write, last_write>>
    /\ UNCHANGED tag_vars

\* An error message that counts the renamed files only.
FailureReport_renamed_only(renamed, targeted) ==
    [position |-> Cardinality(renamed), total |-> Cardinality(targeted)]

\* The two numbers of rename_files' error message, lines 384-387.
FailureReport(renamed, targeted) ==
    [position |-> Cardinality(renamed) + 1, total |-> Cardinality(targeted)]

\* A rename_files that notes the failure and goes on with the next file.
RenameFile_keeps_going(i) ==
    /\ pc = "rename"
    /\ i \in changed_tagged_files \ attempted
    /\ attempted' = attempted \cup {i}
    /\ \E w \in write(tagged_files[i], disk, os_name) :
          /\ disk' = w.disk
          /\ \/ /\ w.result = "error"
                /\ report' = FailureReport(renamed_files, changed_tagged_files)
                /\ exit_code' = 1
                /\ UNCHANGED <<renamed_files, renames, pc>>
             \/ /\ w.result # "error"
                /\ renamed_files' = renamed_files \cup {i}
                /\ renames' =
                      IF w.result = "renamed"
                      THEN Append(renames,
                                  [from |-> tagged_files[i].path.name,
                                   to |-> NewName(tagged_files[i])])
                      ELSE renames
                /\ UNCHANGED <<report, exit_code, pc>>
    /\ UNCHANGED <<os_name, previous, disk0, entry, argv, config, tagged_files,
                   changed_tagged_files, answer, run_no, prev_write,
                   last_write>>
    /\ UNCHANGED tag_vars

\* One iteration of rename_files' loop, lines 379-392, on a file not yet
\* visited: write() renames it, or raises, and then rename_files raises and
\* main (lines 343-346) exits with status 1.
RenameFile(i) ==
    /\ pc = "rename"
    /\ i \in changed_tagged_files \ attempted
    /\ attempted' = attempted \cup {i}
    /\ \E w \in write(tagged_files[i], disk, os_name) :
          /\ disk' = w.disk
          /\ \/ /\ w.result = "error"
                /\ report' = FailureReport(renamed_files, changed_tagged_files)
                /\ exit_code' = 1
                /\ pc' = "exited"
                /\ UNCHANGED <<renamed_files, renames>>
             \/ /\ w.result # "error"
                /\ renamed_files' = renamed_files \cup {i}
                /\ renames' =
                      IF w.result = "renamed"
                      THEN Append(renames,
                                  [from |-> tagged_files[i].path.name,
                                   to |-> NewName(tagged_files[i])])
                      ELSE renames
                /\ UNCHANGED <<report, exit_code, pc>>
    /\ UNCHANGED <<os_name, previous, disk0, entry, argv, config, tagged_files,
                   changed_tagged_files, answer, run_no, prev_write,
                   last_write>>
    /\ UNCHANGED tag_vars

\* rename_files' loop ends and main returns (line 347).
RenameDone ==
    /\ pc = "rename"
    /\ changed_tagged_files \subseteq attempted
    /\ pc' = "returned"
    /\ UNCHANGED <<os_name, previous, disk0, disk, entry, argv, config, tagged_files,
                   changed_tagged_files, renamed_files, attempted, renames,
                   exit_code, answer, report, run_no, prev_write, last_write>>
    /\ UNCHANGED tag_vars

\* The name object i's file has after the invocation.
CurrentName(i) ==
    IF i \in renamed_files THEN NewName(tagged_files[i])
    ELSE tagged_files[i].path.name

\* After an invocation that renamed something, the user runs the same
\* command again, on the files under the names they have now: a new process
\* constructs new TaggedFile objects.
Rerun ==
    /\ pc \in {"exited", "returned"}
    /\ entry = "main"
    /\ renamed_files # {}
    /\ run_no < MaxRuns
    /\ LET paths == Enumerate({CurrentName(i) : i \in Files} \cap DOMAIN disk)
       IN /\ paths # <<>>
          /\ tagged_files' \in Choices(
                [i \in 1..Len(paths) |->
                    TaggedFiles([dir |-> "/d", name |-> paths[i]])])
    /\ run_no' = run_no + 1
    /\ pc' = "main"
    /\ changed_tagged_files' = {}
    /\ renamed_files' = {}
    /\ attempted' = {}
    /\ exit_code' = -1
    /\ answer' = <<>>
    /\ report' = NoReport
    /\ disk0' = disk
    /\ renames' = <<>>
    /\ previous' = {r.to : r \in Range(renames)}
    /\ UNCHANGED <<os_name, disk, entry, argv, config, prev_write, last_write>>
    /\ UNCHANGED tag_vars

Next ==
    \/ ParseArgs
    \/ ValidatePaths
    \/ Construct
    \/ Apply
    \/ SelectChanged
    \/ CheckNoAction
    \/ Confirm
    \/ \E i \in Files : RenameFile(i)
    \/ RenameDone
    \/ Rerun

Spec == Init /\ [][Next]_vars

(***************************************************************************)
(* A single TaggedFile used through its methods, as the tests use it.      *)
(***************************************************************************)
\* Raw tag texts given to Tag(...) by the caller: their canonical names, a
\* and a1, share their first character.
ApiRawTags == {<<"a">>, <<" ", "A", "1">>}

\* The file is alone in its directory, so os.name makes no difference to
\* os.rename here.
InitFile ==
    /\ os_name = "posix"
    /\ entry = "api"
    /\ \E dir \in Dirs, name \in Names :
          /\ tagged_files \in Choices(<<TaggedFiles([dir |-> dir, name |-> name])>>)
          /\ disk = [n \in {name} |-> n]
    /\ disk0 = disk
    /\ argv = [action |-> <<>>, tags |-> {}, paths |-> {},
               no_action |-> FALSE, interactive |-> FALSE]
    /\ config = NoConfig
    /\ pc = "api"
    /\ changed_tagged_files = {}
    /\ renamed_files = {}
    /\ attempted = {}
    /\ renames = <<>>
    /\ previous = {}
    /\ exit_code = -1
    /\ answer = <<>>
    /\ report = NoReport
    /\ run_no = 1
    /\ prev_write = "none"
    /\ last_write = "none"
    /\ tag_name = <<>>
    /\ new_tag = NoTag

\* tagged_file.add_tag(Tag(raw)). The caller mutates the tags before it
\* writes: write() leaves the object as it is, so later mutations reach no
\* other object state.
ApiAddTag(i, raw) ==
    /\ pc = "api"
    /\ renames = <<>>
    /\ ~TagRaises(raw)
    /\ Len(tagged_files[i].tags) < MaxFileTags
    /\ \E tags \in add_tag(tagged_files[i].tags, normalize_name(raw)) :
          tagged_files' = [tagged_files EXCEPT ![i].tags = tags]
    /\ prev_write' = "none"
    /\ last_write' = "none"
    /\ UNCHANGED <<os_name, previous, disk0, disk, entry, argv, config, pc,
                   changed_tagged_files, renamed_files, attempted, renames,
                   exit_code, answer, report, run_no>>
    /\ UNCHANGED tag_vars

\* tagged_file.remove_tag(Tag(raw))
ApiRemoveTag(i, raw) ==
    /\ pc = "api"
    /\ renames = <<>>
    /\ ~TagRaises(raw)
    /\ tagged_files' =
          [tagged_files EXCEPT
              ![i].tags = remove_tag(tagged_files[i].tags, normalize_name(raw))]
    /\ prev_write' = "none"
    /\ last_write' = "none"
    /\ UNCHANGED <<os_name, previous, disk0, disk, entry, argv, config, pc,
                   changed_tagged_files, renamed_files, attempted, renames,
                   exit_code, answer, report, run_no>>
    /\ UNCHANGED tag_vars

\* tagged_file.write()
ApiWrite(i) ==
    /\ pc = "api"
    /\ \E w \in write(tagged_files[i], disk, os_name) :
          /\ disk' = w.disk
          /\ last_write' = w.result
          /\ renames' =
                IF w.result = "renamed"
                THEN Append(renames,
                            [from |-> tagged_files[i].path.name,
                             to |-> NewName(tagged_files[i])])
                ELSE renames
    /\ prev_write' = last_write
    /\ UNCHANGED <<os_name, previous, disk0, entry, argv, config, tagged_files, pc,
                   changed_tagged_files, renamed_files, attempted, exit_code,
                   answer, report, run_no>>
    /\ UNCHANGED tag_vars

NextFile ==
    \/ \E i \in Files, raw \in ApiRawTags : ApiAddTag(i, raw)
    \/ \E i \in Files, raw \in ApiRawTags : ApiRemoveTag(i, raw)
    \/ \E i \in Files : ApiWrite(i)

SpecFile == InitFile /\ [][NextFile]_vars

(***************************************************************************)
(* A single Tag constructed from a raw text, as the tests construct it.    *)
(***************************************************************************)
\* The characters of raw tag texts: those of file names and the underscore,
\* the one separator of common_separators that Alphabet lacks.
TagAlphabet == Alphabet \cup {"_"}

InitTag ==
    /\ os_name = "posix"
    /\ entry = "tag"
    /\ tag_name \in StringsUpTo(TagAlphabet, MaxLen)
    /\ new_tag = NoTag
    /\ disk = <<>>
    /\ disk0 = disk
    /\ argv = [action |-> <<>>, tags |-> {}, paths |-> {},
               no_action |-> FALSE, interactive |-> FALSE]
    /\ config = NoConfig
    /\ tagged_files = <<>>
    /\ pc = "tag"
    /\ changed_tagged_files = {}
    /\ renamed_files = {}
    /\ attempted = {}
    /\ renames = <<>>
    /\ previous = {}
    /\ exit_code = -1
    /\ answer = <<>>
    /\ report = NoReport
    /\ run_no = 1
    /\ prev_write = "none"
    /\ last_write = "none"

\* Tag(tag_name), lines 82-84: normalize_name raises, or name and value are
\* set.
NewTag ==
    /\ pc = "tag"
    /\ new_tag = NoTag
    /\ \/ /\ TagRaises(tag_name)
          /\ new_tag' = [state |-> "raised", name |-> <<>>]
       \/ /\ ~TagRaises(tag_name)
          /\ new_tag' = [state |-> "made", name |-> normalize_name(tag_name)]
    /\ UNCHANGED <<os_name, disk, disk0, entry, argv, config, tagged_files, pc,
                   changed_tagged_files, renamed_files, attempted, renames,
                   previous, exit_code, answer, report, run_no, prev_write,
                   last_write, tag_name>>

NextTag == NewTag

SpecTag == InitTag /\ [][NextTag]_vars

(***************************************************************************)
(* Properties.                                                             *)
(***************************************************************************)
\* The directory d after the renames rs, in order; a rename onto a name in
\* use replaces the file there.
RECURSIVE Replay(_, _)
Replay(d, rs) ==
    IF rs = <<>> THEN d
    ELSE LET r == Head(rs)
         IN Replay([n \in (DOMAIN d \ {r.from}) \cup {r.to} |->
                        IF n = r.to THEN d[r.from] ELSE d[n]],
                   Tail(rs))

\* rename_files raised: the message with its two numbers was made.
Failed == report # NoReport

\* C1 as stated: after two write() calls in a row of which the first renamed
\* the file, the second one was a no-op that raised nothing.
C1_SecondWriteIsNoop ==
    prev_write = "renamed" => last_write = "noop"

\* C1, amended: after two write() calls in a row of which the first renamed
\* the file, the second one raised exception.Error and renamed nothing: the
\* file was renamed once and the directory is as the first call left it.
C1_SecondWriteRaises ==
    prev_write = "renamed" =>
        /\ last_write = "error"
        /\ Len(renames) = 1
        /\ disk = Replay(disk0, renames)

C1_Witness ==
    /\ prev_write = "renamed"
    /\ last_write = "error"
    /\ tagged_files[1].tags # <<>>

\* C2: once rename_files has failed on a file, exactly one file was attempted
\* beyond the renamed ones, the invocation is over with no file attempted
\* after it, and the directory is the one the invocation started with, with
\* the renames of the files processed before the failing one applied, and
\* nothing else.
C2_FailFastNoRollback ==
    Failed =>
        /\ pc = "exited"
        /\ renamed_files \subseteq attempted
        /\ Cardinality(attempted \ renamed_files) = 1
        /\ Len(renames) = Cardinality(renamed_files)
        /\ {r.from : r \in Range(renames)}
              = {tagged_files[i].path.name : i \in renamed_files}
        /\ disk = Replay(disk0, renames)

\* A failure after a successful rename, with a file of the batch left
\* unvisited.
C2_Witness ==
    /\ Failed
    /\ renamed_files # {}
    /\ disk # disk0
    /\ changed_tagged_files \ attempted # {}

\* C3 as stated: the failure reports k, the number of files renamed
\* successfully, together with the number of targeted files.
C3_ReportsRenamedCount ==
    Failed =>
        /\ report.position = Len(renames)
        /\ report.total = Cardinality(Changed(tagged_files))

\* C3, amended: the failure reports k + 1, the position of the failing file
\* (k files were renamed before it), together with the number of targeted
\* files.
C3_ReportsFailingPosition ==
    Failed =>
        /\ report.position = Len(renames) + 1
        /\ report.total = Cardinality(Changed(tagged_files))

C3_Witness ==
    /\ Failed
    /\ Len(renames) = 1
    /\ report = [position |-> 2, total |-> 2]

\* An input that fails validation: a tag whose normalization is empty, an
\* action keyword that is not known, or (on the command line) a path that
\* names no file. A re-run is given the names the files have then.
InvalidInput ==
    \/ \E t \in argv.tags : TagRaises(t)
    \/ IF entry = "run"
       THEN argv.action \notin ActionChoices
       ELSE normalize_value(argv.action) = "raise"
    \/ run_no = 1 /\ argv.paths \ DOMAIN disk0 # {}

\* C4 as stated: an invocation that ends on invalid input has exit code 1
\* and has renamed nothing.
C4_ValidationExitsOne ==
    (entry = "run" /\ InvalidInput /\ pc = "exited") =>
        /\ exit_code = 1
        /\ renames = <<>>

\* C4, amended: an invocation on invalid input ends before main is entered
\* and renames nothing; on the command line its exit code is 2 when argparse
\* rejects the action keyword and 1 otherwise.
C4_ValidationAborts ==
    (entry \in {"run", "main"} /\ InvalidInput) =>
        /\ pc \in {"start", "parsed", "exited", "raised"}
        /\ tagged_files = <<>>
        /\ renames = <<>>
        /\ disk = disk0
        /\ (entry = "run" /\ pc = "exited") =>
              exit_code = IF argv.action \in ActionChoices THEN 1 ELSE 2

\* A command line with a tag whose normalization is empty, ended with exit
\* code 1 and the directory untouched.
C4_Witness ==
    /\ entry = "run"
    /\ pc = "exited"
    /\ \E t \in argv.tags : TagRaises(t)
    /\ argv.action \in ActionChoices
    /\ exit_code = 1
    /\ disk = disk0

\* C5: an invocation that renamed a file, or called write() on one, was
\* started without --no-action, and when --interactive was set its answer
\* was y or yes.
C5_RenamesOnlyWhenAllowed ==
    (renames # <<>> \/ attempted # {} \/ disk # disk0) =>
        /\ ~config.no_action
        /\ config.in_interactive_mode => answer \in {<<"y">>, <<"y", "e", "s">>}

\* A rename in interactive mode, after the answer yes.
C5_Witness ==
    /\ renames # <<>>
    /\ config.in_interactive_mode
    /\ answer = <<"y", "e", "s">>

\* The invocation is past main's computation of the changed set.
Selected == Files # {} /\ pc \notin {"main", "select"}

\* C6 as stated: in a re-run, after the same tags were applied again, every
\* file under a name the run before gave it has new_name equal to its name,
\* and so is not in the changed set.
C6_RerunIsNoop ==
    (run_no > 1 /\ Selected) =>
        \A i \in Files :
            tagged_files[i].name \in previous =>
                /\ tagged_files[i].name = NewName(tagged_files[i])
                /\ i \notin changed_tagged_files

\* The action left the tag set of object i as it was parsed.
TagsUnchanged(i) ==
    Range(tagged_files[i].tags) = parsed_tags(tagged_files[i].name)

\* The name of object i is what new_name renders from its parsed tags, in
\* whatever order the tag set iterates.
InRenderedForm(i) ==
    \A file \in TaggedFiles(tagged_files[i].path) : NewName(file) = file.name

\* C7 as stated: a file on which the action left the tag set unchanged is
\* not in the changed set and is not renamed.
C7_UnchangedTagsExcluded ==
    Selected =>
        \A i \in Files :
            TagsUnchanged(i) =>
                /\ i \notin changed_tagged_files
                /\ i \notin attempted

\* C7, amended: a file on which the action left the tag set unchanged, and
\* whose name is already what new_name renders from its parsed tags, is not
\* in the changed set and is not renamed.
C7_UnchangedRenderedExcluded ==
    Selected =>
        \A i \in Files :
            (TagsUnchanged(i) /\ InRenderedForm(i)) =>
                /\ i \notin changed_tagged_files
                /\ i \notin attempted
                /\ \A r \in Range(renames) : r.from # tagged_files[i].name

\* A batch in which a tag is added to a file that has it, while another file
\* of the batch is renamed.
C7_Witness ==
    /\ Selected
    /\ config.action = "add"
    /\ renames # <<>>
    /\ \E i \in Files :
          /\ tagged_files[i].tags # <<>>
          /\ TagsUnchanged(i)
          /\ InRenderedForm(i)
          /\ i \notin changed_tagged_files

\* C8: a TaggedFile of a normalized path whose name holds no tag token, and
\* which has no tags, has new_name equal to its name and new_path equal to
\* its path.
C8_NoSpuriousRename ==
    \A i \in Files :
        (/\ entry = "api"
         /\ tagged_files[i].path = normalize_path(tagged_files[i].path)
         /\ FindAll(tagged_files[i].name, 1) = <<>>
         /\ tagged_files[i].tags = <<>>) =>
            /\ NewName(tagged_files[i]) = tagged_files[i].name
            /\ new_path(tagged_files[i]) = tagged_files[i].path

\* Python's "<" on two strings.
RECURSIVE StrLt(_, _)
StrLt(a, b) ==
    IF b = <<>> THEN FALSE
    ELSE IF a = <<>> THEN TRUE
    ELSE IF Head(a) = Head(b) THEN StrLt(Tail(a), Tail(b))
    ELSE Ord(Head(a)) < Ord(Head(b))

\* C9: new_name lists the tags in the lexicographic order of their
\* canonical names.
C9_TagsInAlphabeticalOrder ==
    \A i \in Files :
        LET shown == Sorted(tagged_files[i].tags)
        IN \A j, k \in 1..Len(shown) : j < k => StrLt(shown[j], shown[k])

\* C10: two TaggedFiles with the same tagless_name and equal tag sets have
\* the same new_name.
C10_RenderingIsDeterministic ==
    \A i, j \in Files :
        (/\ tagged_files[i].tagless_name = tagged_files[j].tagless_name
         /\ Range(tagged_files[i].tags) = Range(tagged_files[j].tags)) =>
            NewName(tagged_files[i]) = NewName(tagged_files[j])

\* The positions of the invocation's rename records that start at name n.
RenamesFrom(n) == {k \in 1..Len(renames) : renames[k].from = n}

\* C11: when main returns (no rename failed, renaming not suppressed), every
\* file whose name differs from its new_name after the tag mutation was
\* renamed exactly once, from path to new_path, and every file whose name
\* equals its new_name was never renamed.
C11_EachChangedFileRenamedOnce ==
    pc = "returned" =>
        /\ \A i \in Files :
              LET file == tagged_files[i]
              IN IF file.name # NewName(file)
                 THEN /\ Cardinality(RenamesFrom(file.path.name)) = 1
                      /\ \A k \in RenamesFrom(file.path.name) :
                            join(file.path.dir, renames[k].to) = new_path(file)
                 ELSE RenamesFrom(file.path.name) = {}
        /\ disk = Replay(disk0, renames)

\* A completed invocation with a renamed file and a file left alone.
C11_Witness ==
    /\ pc = "returned"
    /\ \E i, j \in Files :
          /\ tagged_files[i].name # NewName(tagged_files[i])
          /\ RenamesFrom(tagged_files[i].path.name) # {}
          /\ tagged_files[j].name = NewName(tagged_files[j])
          /\ tagged_files[j].tags # <<>>

\* The raw text holds no alphanumeric character: only whitespace, separators
\* and other characters.
NothingAlphanumeric(name) == \A k \in 1..Len(name) : ~IsAlnum(name[k])

\* C12: Tag construction fails for every raw text that consists only of
\* whitespace, separators and other non-alphanumeric characters, the text
\* "-" included.
C12_SeparatorOnlyTextRaises ==
    (new_tag.state # "none" /\ NothingAlphanumeric(tag_name)) =>
        new_tag.state = "raised"

\* C13: the canonical name of a constructed Tag has no two consecutive
\* separators and neither starts nor ends with a separator.
C13_SeparatorsCollapsed ==
    new_tag.state = "made" =>
        /\ new_tag.name # <<>>
        /\ new_tag.name[1] # TAG_WORD_SEP
        /\ new_tag.name[Len(new_tag.name)] # TAG_WORD_SEP
        /\ \A k \in 1..(Len(new_tag.name) - 1) :
              ~(new_tag.name[k] = TAG_WORD_SEP /\ new_tag.name[k + 1] = TAG_WORD_SEP)

\* Position i of s starts a word: it is the first one or follows whitespace.
WordStart(s, i) == i = 1 \/ IsSpace(s[i - 1])

\* The tags of the marker tokens of s that start a word.
WordTags(s) ==
    LET tokens == {SubSeq(s, i, TokenEnd(s, i + 1)) :
                      i \in {j \in 1..Len(s) : MatchAt(s, j) /\ WordStart(s, j)}}
    IN {normalize_name(t) : t \in {u \in tokens : ~TagRaises(u)}}

\* C14: parsing a file name yields exactly the tags of the marker tokens
\* that start a word; a marker inside a word or after another marker yields
\* no tag.
C14_TagsOnlyFromWordTokens ==
    \A i \in Files :
        entry = "api" =>
            parsed_tags(tagged_files[i].name) = WordTags(tagged_files[i].name)

\* C15: a batch never destroys a file: the directory holds as many files
\* after any write() as when the invocation started.
C15_NoFileDestroyed ==
    entry \in {"run", "main"} =>
        Cardinality(DOMAIN disk) = Cardinality(DOMAIN disk0)

\* C16: a TaggedFile built from a non-empty file name has a non-empty
\* new_name after any sequence of add_tag and remove_tag calls.
C16_NewNameNotEmpty ==
    \A i \in Files :
        (entry = "api" /\ tagged_files[i].name # <<>>) =>
            NewName(tagged_files[i]) # <<>>

====
